---- MODULE Spec2Model ----
(***************************************************************************)
(* Clinic-AI: the intake session state machine (IntakeSession / Visit and  *)
(* AnswerIntakeUseCase) and the background transcription worker            *)
(* (TranscriptionWorker.process_job over the Azure queue).                 *)
(***************************************************************************)
EXTENDS Integers, Sequences, FiniteSets, TLC

(***************************************************************************)
(* Bounds of the model.                                                    *)
(***************************************************************************)
\* largest question budget (IntakeSession.max_questions) a session is created with
MaxBudget == 5

\* max_questions of a stored session that was given none (IntakeSessionMongo)
DefaultBudget == 12

\* the budgets sessions are created with: a single question, one below the
\* minimum-question floor, one that reaches it, and the default
Budgets == {1, MaxBudget - 2, MaxBudget, DefaultBudget}

\* the budgets of the sessions driven directly on the entity: small enough for
\* the session to be filled
EntityBudgets == {MaxBudget - 2, MaxBudget}

(***************************************************************************)
(* Texts.  A text is what the string operations of the code can tell       *)
(* apart: its wording (stem), whether it has upper-case letters, whether   *)
(* it has surrounding whitespace, and how it ends ("?", "." or nothing).   *)
(***************************************************************************)
Text(stem, upper, pad, term) ==
    [stem |-> stem, upper |-> upper, pad |-> pad, term |-> term]

\* str.strip()
Strip(t) == [t EXCEPT !.pad = FALSE]

\* str.lower()
Lower(t) == [t EXCEPT !.upper = FALSE]

\* no pending question (None)
NoQuestion == Text("<none>", FALSE, FALSE, "")

\* the empty string, e.g. the initial Visit.symptom
EmptyText == Text("", FALSE, FALSE, "")

\* "Why have you come in today? What is the main concern you want help with?"
FirstQuestion == Text("why have you come in today", TRUE, FALSE, "?")

\* "What symptoms are you experiencing today?"
SymptomsQuestion == Text("what symptoms are you experiencing today", TRUE, FALSE, "?")

\* "Have we missed anything important about your health, ...?"
ClosingQuestion == Text("have we missed anything important", TRUE, FALSE, "?")

\* what _chat_completion returns when the OpenAI call raised: the error is
\* logged and "" returned
FailedReply == EmptyText

\* what the chat completion can return: any wording, in any case, with or
\* without final punctuation, the closing text itself, or "" when the call failed
ModelReplies ==
    { Text("how long", TRUE, FALSE, "?"),
      Text("how long", FALSE, TRUE, "."),
      Text("any medications", TRUE, FALSE, ""),
      ClosingQuestion,
      EmptyText }

\* a question about family medical history
FamilyHistoryQuestion == Text("does anyone in your family have this", TRUE, FALSE, "?")

\* a question about chronic disease monitoring, tests and screenings
MonitoringQuestion == Text("when was your last blood test", TRUE, FALSE, "?")

\* what the chat completion can return for the next-question prompt of a visit
\* with an acute complaint: the prompt asks it not to, but the family-history
\* and monitoring questions are among the completions the model can produce
CategoryReplies ==
    { Text("how long", TRUE, FALSE, "?"),
      FamilyHistoryQuestion,
      MonitoringQuestion,
      ClosingQuestion }

\* a first answer naming an acute complaint only: "fever for 2 days"
AcuteAnswerTexts == { Text("fever for 2 days", FALSE, FALSE, "") }

\* answers a client submits (request.answer)
AnswerTexts == { Text("yes", FALSE, TRUE, "") }

\* replacement answers a client submits (request.new_answer)
NewAnswerTexts == { Text("no", FALSE, TRUE, "") }

\* question texts handed directly to IntakeSession.add_question_answer
QuestionInputs ==
    { FirstQuestion,
      Text("how long", FALSE, TRUE, "?"),
      Text("any medications", TRUE, FALSE, "?"),
      ClosingQuestion }

\* question numbers a client sends to edit (1-based; 0 and negatives are invalid)
QuestionNumbers == {-1, 0, 1, 2, MaxBudget, MaxBudget + 1}

(***************************************************************************)
(* State.                                                                  *)
(***************************************************************************)
VARIABLES
    session,        \* the persisted visit: its IntakeSession, pending question and symptom
    last,           \* outcome of the most recent intake operation
    now,            \* the clock (datetime.utcnow()), in seconds
    queue,          \* the messages of the transcription queue
    next_id,        \* id the queue gives to the next message sent
    visit_exists,   \* whether the visit of the job is in the visit store
    transcription,  \* the persisted visit.transcription_session
    task,           \* per worker slot: the process_job execution it runs
    patients,       \* stable patients stored under the requests' name and phone
    visits,         \* the visits pushed to those patients
    idempotency_records,  \* the stored idempotency records of the requests' key
    request,        \* per start-intake request: where StartIntakeUseCase.execute is
    stable_visit    \* the stored StableVisit: its status and intake snapshot

intake_vars == <<session, last>>
worker_vars == <<now, queue, next_id, visit_exists, transcription, task>>
start_vars == <<patients, visits, idempotency_records, request, stable_visit>>
vars == <<session, last, now, queue, next_id, visit_exists, transcription, task,
          patients, visits, idempotency_records, request, stable_visit>>

\* no timestamp (None)
NoTime == 0 - 1

\* IntakeSession(...) as created by Visit.__post_init__, with the visit's symptom ""
NewSession(budget) ==
    [ questions_asked        |-> <<>>,
      current_question_count |-> 0,
      max_questions          |-> budget,
      status                 |-> "in_progress",
      completed_at           |-> NoTime,
      pending_question       |-> NoQuestion,
      symptom                |-> EmptyText ]

QuestionAnswer(question, answer, question_number) ==
    [question |-> question, answer |-> answer, question_number |-> question_number]

\* outcome of a domain operation: the error raised ("ok" for none) and the session
Outcome(error, s) == [error |-> error, s |-> s]

(***************************************************************************)
(* IntakeSession (domain entity).                                          *)
(***************************************************************************)
\* a variant of IsDuplicateQuestion that compares the texts as they are
IsDuplicateQuestion_exact(s, question) ==
    \E i \in 1..Len(s.questions_asked) : s.questions_asked[i].question = question

\* the duplicate test of add_question_answer
IsDuplicateQuestion(s, question) ==
    \E i \in 1..Len(s.questions_asked) :
        Strip(Lower(s.questions_asked[i].question)) = Strip(Lower(question))

\* variants of add_question_answer: without the limit check, with the limit
\* check off by one, without the completed check, and numbering from zero
add_question_answer_unlimited(s, question, answer) ==
    IF s.status = "completed"
    THEN Outcome("IntakeAlreadyCompletedError", s)
    ELSE IF IsDuplicateQuestion(s, question)
    THEN Outcome("DuplicateQuestionError", s)
    ELSE Outcome("ok",
            [s EXCEPT
               !.questions_asked =
                   Append(@, QuestionAnswer(question, answer,
                                            s.current_question_count + 1)),
               !.current_question_count = @ + 1])

add_question_answer_limit_off_by_one(s, question, answer) ==
    IF s.status = "completed"
    THEN Outcome("IntakeAlreadyCompletedError", s)
    ELSE IF s.current_question_count > s.max_questions
    THEN Outcome("QuestionLimitExceededError", s)
    ELSE add_question_answer_unlimited(s, question, answer)

add_question_answer_after_completion(s, question, answer) ==
    IF s.current_question_count >= s.max_questions
    THEN Outcome("QuestionLimitExceededError", s)
    ELSE IF IsDuplicateQuestion(s, question)
    THEN Outcome("DuplicateQuestionError", s)
    ELSE Outcome("ok",
            [s EXCEPT
               !.questions_asked =
                   Append(@, QuestionAnswer(question, answer,
                                            s.current_question_count + 1)),
               !.current_question_count = @ + 1])

add_question_answer_numbered_from_zero(s, question, answer) ==
    IF s.status = "completed"
    THEN Outcome("IntakeAlreadyCompletedError", s)
    ELSE IF s.current_question_count >= s.max_questions
    THEN Outcome("QuestionLimitExceededError", s)
    ELSE IF IsDuplicateQuestion(s, question)
    THEN Outcome("DuplicateQuestionError", s)
    ELSE Outcome("ok",
            [s EXCEPT
               !.questions_asked =
                   Append(@, QuestionAnswer(question, answer,
                                            s.current_question_count)),
               !.current_question_count = @ + 1])

\* IntakeSession.add_question_answer
add_question_answer(s, question, answer) ==
    IF s.status = "completed"
    THEN Outcome("IntakeAlreadyCompletedError", s)
    ELSE IF s.current_question_count >= s.max_questions
    THEN Outcome("QuestionLimitExceededError", s)
    ELSE IF IsDuplicateQuestion(s, question)
    THEN Outcome("DuplicateQuestionError", s)
    ELSE Outcome("ok",
            [s EXCEPT
               !.questions_asked =
                   Append(@, QuestionAnswer(question, answer,
                                            s.current_question_count + 1)),
               !.current_question_count = @ + 1])

can_ask_more_questions(s) ==
    /\ s.current_question_count < s.max_questions
    /\ s.status = "in_progress"

is_complete(s) == s.status = "completed"

\* self.status = "completed"; self.completed_at = datetime.utcnow()
complete_intake(s) == [s EXCEPT !.status = "completed", !.completed_at = now]

\* Visit.set_pending_question: caches the question the client will see next
set_pending_question(s, question) == [s EXCEPT !.pending_question = question]

\* recording an answer clears the pending question
clear_pending_question(s) == [s EXCEPT !.pending_question = NoQuestion]

(***************************************************************************)
(* OpenAIQuestionService.                                                  *)
(***************************************************************************)
generate_first_question == FirstQuestion

\* the canonical category of a question, as the classification prompt
\* describes the categories
Category(question) ==
    CASE Lower(question).stem = FamilyHistoryQuestion.stem -> "family"
      [] Lower(question).stem = MonitoringQuestion.stem -> "chronic_monitoring"
      [] Lower(question).stem = "how long" -> "duration"
      [] Lower(question).stem = "any medications" -> "medications"
      [] OTHER -> "other"

\* the next-question prompt's condition analysis: fever, cold, flu, cough, ...
\* are acute conditions, for which family history and monitoring are not asked
IsAcuteOnly(disease) == Lower(disease).stem \in { t.stem : t \in AcuteAnswerTexts }

\* "NEVER ask about family history or chronic monitoring"
ForbiddenCategories == {"family", "chronic_monitoring"}

\* text.replace("\n", " ").strip(); if not text.endswith("?"): text.rstrip(".") + "?"
PostProcess(reply) == [Strip(reply) EXCEPT !.term = "?"]

\* a variant of generate_next_question that never forces the closing question
generate_next_question_unforced(current_count, max_count, reply) ==
    PostProcess(reply)

\* a variant of generate_next_question that forces the closing question one
\* question late, once the budget is used up
generate_next_question_forced_late(current_count, max_count, reply) ==
    IF current_count >= max_count
    THEN ClosingQuestion
    ELSE PostProcess(reply)

\* reply: what the chat completion returns for this call
generate_next_question(current_count, max_count, reply) ==
    IF current_count + 1 >= max_count
    THEN ClosingQuestion
    ELSE PostProcess(reply)

\* a variant of should_stop_asking with the floor of the older service: from
\* three answers on the chat completion may say YES
should_stop_asking_floor_three(current_count, max_count) ==
    current_count >= max_count \/ current_count >= 3

should_stop_asking(current_count, max_count) == current_count >= max_count

\* no completion percent (the call raised, or the operation reports none)
NoPercent == 0 - 1

\* a variant of assess_completion_percent that measures progress against the
\* minimum question count instead of the budget
assess_completion_percent_of_minimum(current_count, max_count) ==
    IF current_count >= 5 THEN 100
    ELSE IF current_count <= 0 THEN 0
    ELSE (current_count * 100) \div 5

\* int(min(max(current_count / max_count, 0.0), 1.0) * 100), 0 when max_count <= 0
assess_completion_percent(current_count, max_count) ==
    IF max_count > 0
    THEN (IF current_count >= max_count THEN 100
          ELSE IF current_count <= 0 THEN 0
          ELSE (current_count * 100) \div max_count)
    ELSE 0

\* _chat_completion: the content of the model's answer, "" when the call raised
\* (a markdown text is the sequence of its lines, "" the empty sequence)
chat_completion(call_ok, content) == IF call_ok THEN content ELSE <<>>

\* what generate_pre_visit_summary returns
Summary(summary, chief_complaint, key_findings) ==
    [ summary |-> summary, chief_complaint |-> chief_complaint,
      key_findings |-> key_findings ]

\* no summary (the operation is not the summary generation)
NoSummary == Summary(<<>>, "", "")

\* patient_data: name ("none" when the key is absent), symptom and complaint
PatientData ==
    [ name : {"Ann", "none"}, symptom : {"", "fever"}, complaint : {"", "cough"} ]

\* the model's summaries, by the kind of each line: a "## " heading, a "- "
\* bullet, an "[Insert ...]" placeholder, any other text
SummaryReplies ==
    { <<"heading", "bullet">>,
      <<"heading", "insert", "heading", "bullet", "text">>,
      <<"text">>,
      <<>> }

\* flush_section of _clean_summary_markdown: st is (cleaned, current_section_start,
\* section_has_bullets)
flush_section(st) ==
    IF st.current_section_start = 0 - 1 THEN st
    ELSE [ cleaned |-> IF ~st.section_has_bullets /\ st.cleaned # <<>>
                       THEN SubSeq(st.cleaned, 1, Len(st.cleaned) - 1)
                       ELSE st.cleaned,
           current_section_start |-> 0 - 1,
           section_has_bullets |-> FALSE ]

\* the loop of _clean_summary_markdown over the lines from position i on
RECURSIVE clean_lines(_, _, _)
clean_lines(lines, i, st) ==
    IF i > Len(lines) THEN flush_section(st).cleaned
    ELSE IF lines[i] = "heading"
    THEN LET f == flush_section(st)
         IN  clean_lines(lines, i + 1,
                 [ cleaned |-> Append(f.cleaned, lines[i]),
                   current_section_start |-> Len(f.cleaned),
                   section_has_bullets |-> FALSE ])
    ELSE IF lines[i] = "insert"
    THEN clean_lines(lines, i + 1, st)
    ELSE IF lines[i] = "bullet"
    THEN clean_lines(lines, i + 1,
             [st EXCEPT !.cleaned = Append(@, lines[i]),
                        !.section_has_bullets = TRUE])
    ELSE clean_lines(lines, i + 1, [st EXCEPT !.cleaned = Append(@, lines[i])])

\* _clean_summary_markdown: an empty summary is returned as it is
clean_summary_markdown(summary_md) ==
    IF summary_md = <<>> THEN summary_md
    ELSE clean_lines(summary_md, 1,
             [ cleaned |-> <<>>, current_section_start |-> 0 - 1,
               section_has_bullets |-> FALSE ])

\* _generate_fallback_summary: built from patient_data only
generate_fallback_summary(patient_data) ==
    Summary(<< IF patient_data.name = "none"
               THEN "Pre-visit summary for Patient"
               ELSE "Pre-visit summary for Ann" >>,
            IF patient_data.symptom # "" THEN patient_data.symptom
            ELSE IF patient_data.complaint # "" THEN patient_data.complaint
            ELSE "N/A",
            "See intake responses")

\* generate_pre_visit_summary; response: what _chat_completion returned
generate_pre_visit_summary(patient_data, response) ==
    Summary(clean_summary_markdown(response), "See summary", "See summary")

(***************************************************************************)
(* AnswerIntakeUseCase.                                                    *)
(***************************************************************************)
\* minimum number of questions before execute may complete a session
min_questions_required == 5

\* a variant of CurrentQuestion that derives the question again, as the use
\* case did before the pending question was cached
CurrentQuestion_rederived(s, reply) ==
    IF s.current_question_count = 0
    THEN generate_first_question
    ELSE generate_next_question(s.current_question_count, s.max_questions, reply)

\* the question being answered: the pending one if any, else derived
CurrentQuestion(s, reply) ==
    IF s.pending_question # NoQuestion /\ s.pending_question # EmptyText
    THEN s.pending_question
    ELSE IF s.current_question_count = 0
    THEN generate_first_question
    ELSE generate_next_question(s.current_question_count, s.max_questions, reply)

\* number of question-service calls made to determine the current question
CurrentQuestionCalls(s) ==
    IF s.pending_question # NoQuestion /\ s.pending_question # EmptyText
    THEN 0 ELSE 1

\* the first answer becomes the visit's symptom
SetSymptom(s, answer) ==
    IF s.symptom = EmptyText /\ s.current_question_count = 1
    THEN [s EXCEPT !.symptom = Strip(answer)]
    ELSE s

\* a variant of should_complete without the minimum, as in the older use case:
\* should_stop or not visit.can_ask_more_questions()
should_complete_without_minimum(s, should_stop) ==
    should_stop \/ ~can_ask_more_questions(s)

\* (should_stop and reached_minimum) or not visit.can_ask_more_questions()
should_complete(s, should_stop) ==
    \/ should_stop /\ s.current_question_count >= min_questions_required
    \/ ~can_ask_more_questions(s)

\* execute after the answer was added: complete, or cache the next question
Advance(s, reply) ==
    IF should_complete(s, should_stop_asking(s.current_question_count,
                                             s.max_questions))
    THEN complete_intake(s)
    ELSE set_pending_question(s,
             generate_next_question(s.current_question_count, s.max_questions, reply))

\* the completion percent execute reports: assessed, and forced to 100 when the
\* call completed the session
reported_completion_percent(s) ==
    IF is_complete(s) THEN 100
    ELSE assess_completion_percent(s.current_question_count, s.max_questions)

\* AnswerIntakeUseCase.execute: the session persisted by the call and its result;
\* reply1, reply2 are the chat completions of the (up to) two generation calls
execute(s, answer, reply1, reply2) ==
    IF is_complete(s)
    THEN [ s |-> s, error |-> "IntakeAlreadyCompletedError", calls |-> 0,
           completion_percent |-> NoPercent ]
    ELSE LET added == add_question_answer(s, CurrentQuestion(s, reply1), answer)
         IN  IF added.error # "ok"
             THEN [ s |-> s, error |-> added.error,
                    calls |-> CurrentQuestionCalls(s),
                    completion_percent |-> NoPercent ]
             ELSE LET recorded == SetSymptom(clear_pending_question(added.s), answer)
                      advanced == Advance(recorded, reply2)
                  IN  [ s |-> advanced, error |-> "ok",
                        \* should_stop_asking, generate_next_question (unless
                        \* completed), assess_completion_percent
                        calls |-> CurrentQuestionCalls(s)
                                  + (IF is_complete(advanced) THEN 2 ELSE 3),
                        completion_percent |->
                            reported_completion_percent(advanced) ]

\* a variant of edit without the idx < 0 test: a negative index counts from
\* the end of the list, as list indexing does
edit_negative_index(s, question_number, new_answer) ==
    LET idx == question_number - 1
        pos == IF idx < 0 THEN Len(s.questions_asked) + idx + 1 ELSE idx + 1
    IN  IF idx >= Len(s.questions_asked)
        THEN Outcome("ValueError", s)
        ELSE IF pos < 1
        THEN Outcome("IndexError", s)
        ELSE Outcome("ok",
                [s EXCEPT !.questions_asked[pos].answer = Strip(new_answer)])

\* a variant of edit that also drops the cached pending question
edit_clears_pending(s, question_number, new_answer) ==
    LET idx == question_number - 1
    IN  IF idx < 0 \/ idx >= Len(s.questions_asked)
        THEN Outcome("ValueError", s)
        ELSE Outcome("ok",
                [s EXCEPT !.questions_asked[idx + 1].answer = Strip(new_answer),
                          !.pending_question = NoQuestion])

\* AnswerIntakeUseCase.edit
edit(s, question_number, new_answer) ==
    LET idx == question_number - 1
    IN  IF idx < 0 \/ idx >= Len(s.questions_asked)
        THEN Outcome("ValueError", s)
        ELSE Outcome("ok",
                [s EXCEPT !.questions_asked[idx + 1].answer = Strip(new_answer)])

(***************************************************************************)
(* The transcription queue (AzureQueueService).                            *)
(***************************************************************************)
\* settings.azure_queue.max_retry_attempts
MaxRetryAttempts == 1

\* settings.azure_queue.visibility_timeout, in seconds
visibility_timeout == 600

\* timedelta(minutes=20), in seconds
StaleAfter == 1200

\* least visibility extension for a duplicate message, in seconds
MinExtension == 300

\* one step of the clock: half the staleness threshold, so that a processing
\* state is seen fresh, then stale
TickStep == StaleAfter \div 2

\* where the clock stops
MaxTime == 1200

\* most messages ever sent to the queue
MaxMessages == 2

\* the process_job executions that can run at the same time
Workers == {"w1", "w2"}

Min(a, b) == IF a <= b THEN a ELSE b
Max(a, b) == IF a >= b THEN a ELSE b

Message(id, retry_count, visible_at) ==
    [id |-> id, retry_count |-> retry_count, visible_at |-> visible_at]

InQueue(q, id) == \E m \in q : m.id = id

\* queue_client.send_message(..., visibility_timeout=delay_seconds if delay_seconds > 0 else 0)
enqueue_transcription_job(q, id, retry_count, delay_seconds, t) ==
    q \cup { Message(id, retry_count,
                     t + (IF delay_seconds > 0 THEN delay_seconds ELSE 0)) }

\* queue_client.delete_message
delete_message(q, id) == { m \in q : m.id # id }

\* queue_client.update_message(..., visibility_timeout=seconds)
update_message_visibility(q, id, seconds, t) ==
    { IF m.id = id THEN [m EXCEPT !.visible_at = t + seconds] ELSE m : m \in q }

\* a queue call on a message succeeds if the service answers and the message is there
CallSucceeds(q, id, service_ok) == service_ok /\ InQueue(q, id)

(***************************************************************************)
(* The visit's transcription session.                                      *)
(***************************************************************************)
NewTranscription ==
    [ transcription_status |-> "pending",
      started_at           |-> NoTime,
      dequeued_at          |-> NoTime,
      error_message        |-> "none" ]

\* a stored session that is marked processing but carries no started_at
ProcessingWithoutStart ==
    [NewTranscription EXCEPT !.transcription_status = "processing"]

\* what the stored session of a visit can be when its job is first dequeued
StoredTranscriptions == { NewTranscription, ProcessingWithoutStart }

\* the transcription use case starts: the visit is marked as being processed
start_transcription(tr, t) ==
    [tr EXCEPT !.transcription_status = "processing", !.started_at = t]

\* the transcription use case stored a transcript
complete_transcription(tr) ==
    [tr EXCEPT !.transcription_status = "completed"]

\* visit.fail_transcription(error_info)
fail_transcription(tr) ==
    [tr EXCEPT !.transcription_status = "failed", !.error_message = "error"]

(***************************************************************************)
(* TranscriptionWorker.process_job.                                        *)
(***************************************************************************)
\* What the transcription use case ends with: an exception (raised), or a
\* result with its status, its transcript ("text", "blank" for whitespace only,
\* "" for empty or None) and its word count (NoCount for None).
UseCaseResult(raised, transcription_status, transcript, word_count) ==
    [ raised |-> raised, transcription_status |-> transcription_status,
      transcript |-> transcript, word_count |-> word_count ]

NoCount == 0 - 1

\* no result yet
NoResult == UseCaseResult("none", "none", "", NoCount)

\* pc: where the execution is; queue_call: how its last queue call ended
\* ("none" before any); visit_bound: whether the guard's lookup bound `visit`;
\* result: what the use case ended with
IdleTask ==
    [ pc |-> "idle", message_id |-> 0, retry_count |-> 0, path |-> "none",
      error |-> "none", requeued |-> FALSE, visit_bound |-> FALSE,
      queue_call |-> "none", result |-> NoResult,
      visibility_task |-> FALSE, heartbeat_task |-> FALSE ]

\* the task when process_job has returned (or raised) by `path`; handle_job
\* still holds its slot
Returned(tk, path, queue_call) ==
    [IdleTask EXCEPT !.pc = "returned", !.path = path,
                     !.message_id = tk.message_id,
                     !.retry_count = tk.retry_count,
                     !.requeued = tk.requeued,
                     !.visit_bound = tk.visit_bound,
                     !.queue_call = queue_call]

\* how a queue call on message id ends
CallResult(q, id, service_ok) ==
    IF CallSucceeds(q, id, service_ok) THEN "ok" ELSE "failed"

\* the queue after a delete call (unchanged when the call fails)
DeleteCall(q, id, service_ok) ==
    IF CallSucceeds(q, id, service_ok) THEN delete_message(q, id) ELSE q

\* variants of the guard's tests: one that lets jobs of failed visits through,
\* one for which every processing state is stale, and a stale reset that keeps
\* the stale state
is_terminal_completed_only(tr) == tr.transcription_status = "completed"

is_fresh_never(tr, t) == FALSE

reset_transcription_skipped(tr) == tr

\* the guard's tests on the visit's transcription session, in the order of the code
is_terminal(tr) == tr.transcription_status \in {"completed", "failed"}

is_processing(tr) ==
    tr.transcription_status = "processing" /\ tr.started_at # NoTime

\* age < timedelta(minutes=20)
is_fresh(tr, t) == t - tr.started_at < StaleAfter

\* remaining_seconds = max(300, (timedelta(minutes=20) - age).total_seconds())
remaining_seconds(tr, t) == Max(MinExtension, StaleAfter - (t - tr.started_at))

\* the stale reset of the idempotency guard
reset_transcription(tr) ==
    [tr EXCEPT !.transcription_status = "pending",
               !.started_at = NoTime,
               !.error_message = "none"]

\* The idempotency guard and the dequeued_at update that follows it.  lookup_ok:
\* whether visit_repo.find_by_patient_and_visit_id answers; service_ok: whether
\* the queue service answers.  Gives the task, the queue and the session after.
idempotency_guard(tk, q, exists, tr, t, lookup_ok, service_ok) ==
    IF ~lookup_ok
    THEN \* the error is logged; `visit` stays unbound and line 192 raises
         [ task |-> Returned(tk, "crashed", "none"),
           queue |-> q, transcription |-> tr ]
    ELSE LET bound == [tk EXCEPT !.visit_bound = TRUE]
             deleted(path) == Returned(bound, path,
                                       CallResult(q, tk.message_id, service_ok))
         IN
         IF ~exists
         THEN [ task |-> deleted("visit_not_found"),
                queue |-> DeleteCall(q, tk.message_id, service_ok),
                transcription |-> tr ]
         ELSE IF is_terminal(tr)
         THEN [ task |-> deleted(IF tr.transcription_status = "completed"
                                 THEN "already_completed" ELSE "already_failed"),
                queue |-> DeleteCall(q, tk.message_id, service_ok),
                transcription |-> tr ]
         ELSE IF is_processing(tr) /\ is_fresh(tr, t)
         THEN [ task |-> Returned(bound, "already_processing",
                                  CallResult(q, tk.message_id, service_ok)),
                queue |-> IF CallSucceeds(q, tk.message_id, service_ok)
                          THEN update_message_visibility(q, tk.message_id,
                                                         remaining_seconds(tr, t), t)
                          ELSE q,
                transcription |-> tr ]
         ELSE IF is_processing(tr)
         THEN [ task |-> [bound EXCEPT !.pc = "prepare"],
                queue |-> q,
                transcription |-> [reset_transcription(tr) EXCEPT !.dequeued_at = t] ]
         ELSE [ task |-> [bound EXCEPT !.pc = "prepare"],
                queue |-> q,
                transcription |-> [tr EXCEPT !.dequeued_at = t] ]

\* a variant of has_retries_left for which no job has a retry left
has_retries_left_never(retry_count) == FALSE

\* retry_count < self.settings.azure_queue.max_retry_attempts
has_retries_left(retry_count) == retry_count < MaxRetryAttempts

\* a variant of delay_seconds without the cap of five minutes
delay_seconds_uncapped(retry_count) == 60 * (2 ^ retry_count)

\* delay_seconds = min(60 * (2 ** retry_count), 300)
delay_seconds(retry_count) == Min(60 * (2 ^ retry_count), 300)

\* a variant of is_permanent_error for which every error is transient
is_permanent_error_never(error) == FALSE

\* is_permanent_error = isinstance(e, VisitNotFoundError)
is_permanent_error(error) == error = "VisitNotFoundError"

\* what the transcription use case can end with
TranscriptionResults ==
    { UseCaseResult("none", "completed", "text", 3),
      UseCaseResult("none", "completed", "text", 0),
      UseCaseResult("none", "completed", "text", NoCount),
      UseCaseResult("none", "completed", "blank", 1),
      UseCaseResult("none", "completed", "", 0),
      UseCaseResult("none", "failed", "text", 3),
      UseCaseResult("none", "failed", "", NoCount),
      UseCaseResult("TimeoutError", "none", "", NoCount),
      UseCaseResult("VisitNotFoundError", "none", "", NoCount),
      UseCaseResult("Exception", "none", "", NoCount) }

\* a variant of ResultError that does not look at the word count
ResultError_any_word_count(result) ==
    IF result.raised # "none" THEN result.raised
    ELSE IF result.transcription_status # "completed" THEN "ValueError"
    ELSE IF result.transcript \in {"", "blank"} THEN "ValueError"
    ELSE "none"

\* the exception the use case or the strict validation raises; "none" on success
ResultError(result) ==
    IF result.raised # "none" THEN result.raised
    ELSE IF result.transcription_status # "completed" THEN "ValueError"
    ELSE IF result.transcript \in {"", "blank"} THEN "ValueError"
    ELSE IF result.word_count = NoCount \/ result.word_count = 0 THEN "ValueError"
    ELSE "none"

\* a variant of Failed that abandons the background tasks instead of
\* cancelling them
Failed_tasks_abandoned(tk, error, queue_call) ==
    [tk EXCEPT !.pc = "failed", !.error = error, !.queue_call = queue_call]

\* the task in the exception handler of process_job, both background tasks cancelled
Failed(tk, error, queue_call) ==
    [tk EXCEPT !.pc = "failed", !.error = error, !.queue_call = queue_call,
               !.visibility_task = FALSE, !.heartbeat_task = FALSE]

\* the retry branch: the queue after the re-enqueue and whether it succeeded
requeue_job(tk, q, id, t, service_ok) ==
    IF service_ok
    THEN [ queue |-> enqueue_transcription_job(q, id, tk.retry_count + 1,
                                               delay_seconds(tk.retry_count), t),
           requeued |-> TRUE ]
    ELSE [ queue |-> q, requeued |-> FALSE ]

\* the retry branch: the delete of the original message that follows the re-enqueue
delete_original(tk, q, service_ok) == DeleteCall(q, tk.message_id, service_ok)

(***************************************************************************)
(* Actions of the worker side.                                             *)
(***************************************************************************)
\* run: dequeue_transcription_job and create_task(handle_job(job))
Dequeue(w) ==
    /\ task[w].pc = "idle"
    /\ \E m \in queue :
          /\ m.visible_at <= now
          /\ queue' = update_message_visibility(queue, m.id, visibility_timeout, now)
          /\ task' = [task EXCEPT ![w] =
                         [IdleTask EXCEPT !.pc = "guard", !.message_id = m.id,
                                          !.retry_count = m.retry_count]]
    /\ UNCHANGED <<now, next_id, visit_exists, transcription, intake_vars, start_vars>>

\* max_concurrent_jobs as run reads it: values below 1 become 1
concurrency(configured) == IF configured < 1 THEN 1 ELSE configured

\* the permits of the semaphore of run: as many as there are worker slots
max_concurrent_jobs == concurrency(Cardinality(Workers))

\* the handle_job tasks run has created: one more than the semaphore has permits
Handlers == Workers \cup {"w3"}

\* a handle_job task that is inside `async with semaphore`
HoldsPermit(tk) == tk.pc \notin {"idle", "waiting"}

\* a variant of semaphore_locked for a semaphore that never blocks
semaphore_locked_never(tasks) == FALSE

\* asyncio.Semaphore.locked(): no permit is left
semaphore_locked(tasks) ==
    Cardinality({ h \in DOMAIN tasks : HoldsPermit(tasks[h]) }) >= max_concurrent_jobs

\* run: dequeue_transcription_job and create_task(handle_job(job)); the task
\* waits for the semaphore
Poll(h) ==
    /\ task[h].pc = "idle"
    /\ \E m \in queue :
          /\ m.visible_at <= now
          /\ queue' = update_message_visibility(queue, m.id, visibility_timeout, now)
          /\ task' = [task EXCEPT ![h] =
                         [IdleTask EXCEPT !.pc = "waiting", !.message_id = m.id,
                                          !.retry_count = m.retry_count]]
    /\ UNCHANGED <<now, next_id, visit_exists, transcription, intake_vars, start_vars>>

\* handle_job enters `async with semaphore` and calls process_job
Acquire(h) ==
    /\ task[h].pc = "waiting"
    /\ ~semaphore_locked(task)
    /\ task' = [task EXCEPT ![h].pc = "guard"]
    /\ UNCHANGED <<now, queue, next_id, visit_exists, transcription, intake_vars,
                   start_vars>>

\* process_job, lines 115-201
Guard(w) ==
    /\ task[w].pc = "guard"
    /\ \E lookup_ok \in BOOLEAN, service_ok \in BOOLEAN :
          LET g == idempotency_guard(task[w], queue, visit_exists, transcription,
                                     now, lookup_ok, service_ok)
          IN  /\ task' = [task EXCEPT ![w] = g.task]
              /\ queue' = g.queue
              /\ transcription' = g.transcription
    /\ UNCHANGED <<now, next_id, visit_exists, intake_vars, start_vars>>

\* process_job, lines 203-298: the audio file and blob reference are looked up,
\* the visibility and heartbeat tasks started, the transcription use case begun
Prepare(w) ==
    /\ task[w].pc = "prepare"
    /\ \E audio_found \in BOOLEAN :
          IF audio_found
          THEN /\ task' = [task EXCEPT ![w].pc = "transcribing",
                                       ![w].visibility_task = TRUE,
                                       ![w].heartbeat_task = TRUE]
               /\ transcription' = start_transcription(transcription, now)
          ELSE \* ValueError before heartbeat_task is bound: the handler raises at line 404
               /\ task' = [task EXCEPT ![w] = Returned(task[w], "crashed", "none")]
               /\ transcription' = transcription
    /\ UNCHANGED <<now, queue, next_id, visit_exists, intake_vars, start_vars>>

\* extend_visibility: the periodic task of a running job
ExtendVisibility(w) ==
    /\ task[w].visibility_task
    /\ InQueue(queue, task[w].message_id)
    /\ queue' = update_message_visibility(queue, task[w].message_id,
                                          visibility_timeout, now)
    /\ queue' # queue
    /\ UNCHANGED <<now, next_id, visit_exists, transcription, task, intake_vars, start_vars>>

\* process_job, lines 294-378: the use case ends, the result is validated, the
\* message deleted on success; both background tasks are cancelled
Finish(w) ==
    /\ task[w].pc = "transcribing"
    /\ \E result \in TranscriptionResults, service_ok \in BOOLEAN :
          IF ResultError(result) = "none"
          THEN /\ transcription' = complete_transcription(transcription)
               /\ queue' = DeleteCall(queue, task[w].message_id, service_ok)
               /\ task' = [task EXCEPT ![w] =
                    IF CallSucceeds(queue, task[w].message_id, service_ok)
                    THEN [Returned(task[w], "completed", "ok")
                             EXCEPT !.result = result]
                    ELSE \* delete_message raised: handled like any other exception
                         [Failed(task[w], "Exception", "failed")
                             EXCEPT !.result = result]]
          ELSE /\ transcription' = transcription
               /\ queue' = queue
               /\ task' = [task EXCEPT ![w] =
                              [Failed(task[w], ResultError(result), "none")
                                  EXCEPT !.result = result]]
    /\ UNCHANGED <<now, next_id, visit_exists, intake_vars, start_vars>>

\* process_job, lines 411-441: a permanent error
HandlePermanent(w) ==
    /\ task[w].pc = "failed"
    /\ is_permanent_error(task[w].error)
    /\ \E service_ok \in BOOLEAN :
          /\ queue' = DeleteCall(queue, task[w].message_id, service_ok)
          /\ task' = [task EXCEPT ![w] =
                Returned(task[w], "permanent",
                         CallResult(queue, task[w].message_id, service_ok))]
    /\ UNCHANGED <<now, next_id, visit_exists, transcription, intake_vars, start_vars>>

\* process_job, lines 443-462: a transient error with retries left is re-enqueued
Requeue(w) ==
    /\ task[w].pc = "failed"
    /\ ~is_permanent_error(task[w].error)
    /\ has_retries_left(task[w].retry_count)
    /\ next_id <= MaxMessages
    /\ \E service_ok \in BOOLEAN :
          LET r == requeue_job(task[w], queue, next_id, now, service_ok)
          IN  /\ queue' = r.queue
              /\ next_id' = IF r.requeued THEN next_id + 1 ELSE next_id
              /\ task' = [task EXCEPT ![w].pc = "delete_original",
                                      ![w].result = NoResult,
                                      ![w].requeued = r.requeued,
                                      ![w].queue_call =
                                          IF r.requeued THEN "ok" ELSE "failed"]
    /\ UNCHANGED <<now, visit_exists, transcription, intake_vars, start_vars>>

\* process_job, lines 464-488: the original message is deleted
DeleteOriginal(w) ==
    /\ task[w].pc = "delete_original"
    /\ \E service_ok \in BOOLEAN :
          /\ queue' = delete_original(task[w], queue, service_ok)
          /\ task' = [task EXCEPT ![w] =
                Returned(task[w], "retry",
                         CallResult(queue, task[w].message_id, service_ok))]
    /\ UNCHANGED <<now, next_id, visit_exists, transcription, intake_vars, start_vars>>

\* process_job, lines 489-528: the retries are used up.  lookup_ok: whether the
\* visit repository answers (a failure is only logged and the visit not marked)
Exhausted(w) ==
    /\ task[w].pc = "failed"
    /\ ~is_permanent_error(task[w].error)
    /\ ~has_retries_left(task[w].retry_count)
    /\ \E service_ok \in BOOLEAN, lookup_ok \in BOOLEAN :
          LET marked == lookup_ok /\ visit_exists
          IN  /\ queue' = DeleteCall(queue, task[w].message_id, service_ok)
              /\ task' = [task EXCEPT ![w] =
                    Returned(task[w],
                             IF marked THEN "exhausted" ELSE "exhausted_unmarked",
                             CallResult(queue, task[w].message_id, service_ok))]
              /\ transcription' = IF marked THEN fail_transcription(transcription)
                                  ELSE transcription
    /\ UNCHANGED <<now, next_id, visit_exists, intake_vars, start_vars>>

\* handle_job leaves `async with semaphore`: the slot is free again
Release(w) ==
    /\ task[w].pc = "returned"
    /\ task' = [task EXCEPT ![w] = IdleTask]
    /\ UNCHANGED <<now, queue, next_id, visit_exists, transcription, intake_vars, start_vars>>

\* the visit of the job is removed from the visit store while the job is queued
\* or being processed
RemoveVisit ==
    /\ visit_exists
    /\ queue # {}
    /\ visit_exists' = FALSE
    /\ UNCHANGED <<now, queue, next_id, transcription, task, intake_vars, start_vars>>

\* time passes
Tick ==
    /\ now + TickStep <= MaxTime
    /\ now' = now + TickStep
    /\ UNCHANGED <<queue, next_id, visit_exists, transcription, task, intake_vars, start_vars>>

(***************************************************************************)
(* StartIntakeUseCase.execute: start-intake requests that carry the same    *)
(* idempotency key, name and phone.  Each await of the use case is a step.  *)
(***************************************************************************)
\* the start-intake requests; a request's number also stands for the UUIDs it
\* generates
StartRequests == {1, 2, 3}

\* the id of a patient stored before any of the requests
ExistingPatient == 0

\* timedelta(minutes=10), in seconds
RecordLifetime == 600

\* no id (None)
NoId == 0 - 1

\* a request that has not arrived
IdleRequest ==
    [ pc |-> "idle", patient_id |-> NoId, visit_id |-> NoId,
      action |-> "none" ]

\* IntakeStartResponse
Respond(action, patient_id, visit_id) ==
    [ pc |-> "done", patient_id |-> patient_id, visit_id |-> visit_id,
      action |-> action ]

\* the records find_idempotency_record can return: those not yet expired
LiveRecords(records, t) == { rec \in records : rec.expires_at > t }

\* find_idempotency_record, and the early return when a record exists
FindIdempotencyRecord(r) ==
    /\ request[r].pc = "received"
    /\ IF LiveRecords(idempotency_records, now) # {}
       THEN \E rec \in LiveRecords(idempotency_records, now) :
               request' = [request EXCEPT ![r] =
                   Respond("existing_patient_new_visit", rec.patient_id, rec.visit_id)]
       ELSE request' = [request EXCEPT ![r].pc = "find_patient"]
    /\ UNCHANGED <<patients, visits, idempotency_records, intake_vars, worker_vars, stable_visit>>

\* find_or_create_patient: find_patient_by_normalized_data
FindPatient(r) ==
    /\ request[r].pc = "find_patient"
    /\ IF patients # {}
       THEN \E p \in patients :
               request' = [request EXCEPT ![r].pc = "add_visit",
                                          ![r].patient_id = p,
                                          ![r].action = "existing_patient_new_visit"]
       ELSE request' = [request EXCEPT ![r].pc = "save_patient"]
    /\ UNCHANGED <<patients, visits, idempotency_records, intake_vars, worker_vars, stable_visit>>

\* find_or_create_patient: StablePatientId.generate() and save_patient
SavePatient(r) ==
    /\ request[r].pc = "save_patient"
    /\ patients' = patients \cup {r}
    /\ request' = [request EXCEPT ![r].pc = "add_visit",
                                  ![r].patient_id = r,
                                  ![r].action = "new_patient_created"]
    /\ UNCHANGED <<visits, idempotency_records, intake_vars, worker_vars, stable_visit>>

\* StableVisitId.generate() and add_visit_to_patient
AddVisitToPatient(r) ==
    /\ request[r].pc = "add_visit"
    /\ visits' = visits \cup { [visit_id |-> r, patient_id |-> request[r].patient_id] }
    /\ request' = [request EXCEPT ![r].pc = "save_record", ![r].visit_id = r]
    /\ UNCHANGED <<patients, idempotency_records, intake_vars, worker_vars, stable_visit>>

\* save_idempotency_record, and the response
SaveIdempotencyRecord(r) ==
    /\ request[r].pc = "save_record"
    /\ idempotency_records' = idempotency_records \cup
           { [ patient_id |-> request[r].patient_id,
               visit_id   |-> request[r].visit_id,
               expires_at |-> now + RecordLifetime ] }
    /\ request' = [request EXCEPT ![r] =
           Respond(request[r].action, request[r].patient_id, request[r].visit_id)]
    /\ UNCHANGED <<patients, visits, intake_vars, worker_vars, stable_visit>>

(***************************************************************************)
(* StableVisit and SubmitIntakeUseCase.                                    *)
(***************************************************************************)
\* the question keys and the values of the answers dictionaries
QuestionKeys == {"q1", "q2"}
AnswerValues == {"a", "b"}

\* request.answers: a dictionary over some of the keys, possibly empty
AnswerDicts == UNION { [keys -> AnswerValues] : keys \in SUBSET QuestionKeys }

\* dict.update: the keys of both, the new value where both have the key
update(old, new) ==
    [ k \in (DOMAIN old) \cup (DOMAIN new) |->
        IF k \in DOMAIN new THEN new[k] ELSE old[k] ]

\* IntakeSnapshot()
NewIntakeSnapshot == [ answers |-> << >>, total_questions |-> 0 ]

\* StableVisit(visit_id, patient_id, status="open") after __post_init__
NewStableVisit == [ status |-> "open", intake_snapshot |-> NewIntakeSnapshot ]

\* StableVisit.submit_intake_answers
submit_intake_answers(v, answers) ==
    IF v.status \notin {"open", "in_progress"}
    THEN Outcome("ValueError", v)
    ELSE Outcome("ok",
            [v EXCEPT
               !.intake_snapshot.answers = update(@, answers),
               !.intake_snapshot.total_questions = Cardinality(DOMAIN answers),
               !.status = "in_progress"])

\* StableVisit.complete_intake
StableVisit_complete_intake(v) ==
    IF v.status # "in_progress"
    THEN Outcome("ValueError", v)
    ELSE Outcome("ok", [v EXCEPT !.status = "completed"])

\* StableVisit.cancel_visit
cancel_visit(v) == Outcome("ok", [v EXCEPT !.status = "cancelled"])

(***************************************************************************)
(* Actions of the intake side.                                             *)
(***************************************************************************)
Result(op, error, calls) ==
    [ op |-> op, error |-> error, calls |-> calls,
      completion_percent |-> NoPercent, summary |-> NoSummary ]

\* SubmitIntakeUseCase.execute on the stored visit: the visit is found and
\* belongs to the patient; update_visit runs only when the entity did not raise
SubmitIntake ==
    \E answers \in AnswerDicts :
        LET r == submit_intake_answers(stable_visit, answers)
        IN  /\ stable_visit' = r.s
            /\ last' = Result("submit_intake", r.error, 0)
            /\ UNCHANGED <<session, worker_vars, patients, visits,
                           idempotency_records, request>>

\* StableVisit.complete_intake called on the stored visit
CompleteStableIntake ==
    LET r == StableVisit_complete_intake(stable_visit)
    IN  /\ stable_visit' = r.s
        /\ last' = Result("stable_complete_intake", r.error, 0)
        /\ UNCHANGED <<session, worker_vars, patients, visits,
                       idempotency_records, request>>

\* StableVisit.cancel_visit called on the stored visit
CancelVisit ==
    LET r == cancel_visit(stable_visit)
    IN  /\ stable_visit' = r.s
        /\ last' = Result("cancel_visit", r.error, 0)
        /\ UNCHANGED <<session, worker_vars, patients, visits,
                       idempotency_records, request>>

\* POST /patients/consultations/answer
Execute ==
    \E answer \in AnswerTexts, reply1 \in ModelReplies, reply2 \in ModelReplies :
        LET r == execute(session, answer, reply1, reply2)
        IN  /\ session' = r.s
            /\ last' = [Result("execute", r.error, r.calls)
                           EXCEPT !.completion_percent = r.completion_percent]
            /\ UNCHANGED <<worker_vars, start_vars>>

\* POST /patients/consultations/answer for a visit whose first answer names an
\* acute complaint
ExecuteAcute ==
    \E answer \in AcuteAnswerTexts, reply1 \in CategoryReplies, reply2 \in CategoryReplies :
        LET r == execute(session, answer, reply1, reply2)
        IN  /\ session' = r.s
            /\ last' = [Result("execute", r.error, r.calls)
                           EXCEPT !.completion_percent = r.completion_percent]
            /\ UNCHANGED <<worker_vars, start_vars>>

\* the edit-answer endpoint
Edit ==
    \E question_number \in QuestionNumbers, new_answer \in NewAnswerTexts :
        LET r == edit(session, question_number, new_answer)
        IN  /\ session' = r.s
            /\ last' = Result("edit", r.error, 0)
            /\ UNCHANGED <<worker_vars, start_vars>>

\* IntakeSession.add_question_answer called on the entity
AddQuestionAnswer ==
    \E question \in QuestionInputs, answer \in AnswerTexts :
        LET r == add_question_answer(session, question, answer)
        IN  /\ session' = r.s
            /\ last' = Result("add_question_answer", r.error, 0)
            /\ UNCHANGED <<worker_vars, start_vars>>

\* Visit.complete_intake called on the entity
CompleteIntake ==
    /\ session' = complete_intake(session)
    /\ last' = Result("complete_intake", "ok", 0)
    /\ UNCHANGED <<worker_vars, start_vars>>

\* the pre-visit summary of a patient is generated
GeneratePreVisitSummary ==
    \E patient_data \in PatientData, call_ok \in BOOLEAN,
       content \in SummaryReplies :
        /\ last' = [Result("generate_pre_visit_summary", "ok", 1)
                       EXCEPT !.summary =
                           generate_pre_visit_summary(patient_data,
                               chat_completion(call_ok, content))]
        /\ UNCHANGED <<session, worker_vars, start_vars>>

\* RegisterPatientUseCase.execute: for an existing patient as for a new one the
\* visit is created with an empty symptom and no pending question, and the
\* response carries the literal first question
RegisterPatientResponse == [first_question |-> SymptomsQuestion]

\* a visit was created with its intake session; no audio was uploaded yet
Init ==
    /\ session \in { NewSession(b) : b \in Budgets }
    /\ last = Result("create", "ok", 0)
    /\ now = 0
    /\ queue = {}
    /\ next_id = 1
    /\ visit_exists = TRUE
    /\ transcription = NewTranscription
    /\ task = [w \in Workers |-> IdleTask]
    /\ patients = {}
    /\ visits = {}
    /\ idempotency_records = {}
    /\ request = [r \in StartRequests |-> IdleRequest]
    /\ stable_visit = NewStableVisit

\* a visit whose intake session is also driven directly on the entity
InitEntity ==
    /\ session \in { NewSession(b) : b \in EntityBudgets }
    /\ last = Result("create", "ok", 0)
    /\ now = 0
    /\ queue = {}
    /\ next_id = 1
    /\ visit_exists = TRUE
    /\ transcription = NewTranscription
    /\ task = [w \in Workers |-> IdleTask]
    /\ patients = {}
    /\ visits = {}
    /\ idempotency_records = {}
    /\ request = [r \in StartRequests |-> IdleRequest]
    /\ stable_visit = NewStableVisit

\* an audio upload enqueued the transcription job of a visit (new job: retry
\* count 0, no delay); the visit may have been removed since, and its stored
\* transcription session is pending or marked processing without a start time
InitWorker ==
    /\ session = NewSession(MaxBudget)
    /\ last = Result("create", "ok", 0)
    /\ now = 0
    /\ queue = enqueue_transcription_job({}, 1, 0, 0, 0)
    /\ next_id = 2
    /\ visit_exists \in BOOLEAN
    /\ transcription \in StoredTranscriptions
    /\ task = [w \in Workers |-> IdleTask]
    /\ patients = {}
    /\ visits = {}
    /\ idempotency_records = {}
    /\ request = [r \in StartRequests |-> IdleRequest]
    /\ stable_visit = NewStableVisit

\* start-intake requests with one idempotency key have arrived, for a patient
\* that is stored already or not
InitStartIntake ==
    /\ session = NewSession(MaxBudget)
    /\ last = Result("create", "ok", 0)
    /\ now = 0
    /\ queue = {}
    /\ next_id = 1
    /\ visit_exists = TRUE
    /\ transcription = NewTranscription
    /\ task = [w \in Workers |-> IdleTask]
    /\ patients \in { {}, {ExistingPatient} }
    /\ visits = {}
    /\ idempotency_records = {}
    /\ request = [r \in StartRequests |-> [IdleRequest EXCEPT !.pc = "received"]]
    /\ stable_visit = NewStableVisit

\* one worker process: run has more handle_job tasks than permits
InitRun ==
    /\ session = NewSession(MaxBudget)
    /\ last = Result("create", "ok", 0)
    /\ now = 0
    /\ queue = enqueue_transcription_job({}, 1, 0, 0, 0)
    /\ next_id = 2
    /\ visit_exists = TRUE
    /\ transcription = NewTranscription
    /\ task = [h \in Handlers |-> IdleTask]
    /\ patients = {}
    /\ visits = {}
    /\ idempotency_records = {}
    /\ request = [r \in StartRequests |-> IdleRequest]
    /\ stable_visit = NewStableVisit

\* the use case, as the API drives it
Next ==
    \/ Execute
    \/ Edit

Spec == Init /\ [][Next]_vars

\* the session state machine: record-answer (through the use case or on the
\* entity), edit-answer and complete
NextEntity ==
    \/ Execute
    \/ AddQuestionAnswer
    \/ Edit
    \/ CompleteIntake

SpecEntity == InitEntity /\ [][NextEntity]_vars

\* the session under the use case and complete, with time passing between calls
NextCompletion ==
    \/ Execute
    \/ CompleteIntake
    \/ Tick

SpecCompletion == InitEntity /\ [][NextCompletion]_vars

\* the intake of a visit and the generation of its pre-visit summary
NextSummary ==
    \/ Execute
    \/ GeneratePreVisitSummary

SpecSummary == InitEntity /\ [][NextSummary]_vars

\* the transcription worker and its queue
NextWorker ==
    \/ \E w \in Workers : Dequeue(w)
    \/ \E w \in Workers : Guard(w)
    \/ \E w \in Workers : Prepare(w)
    \/ \E w \in Workers : ExtendVisibility(w)
    \/ \E w \in Workers : Finish(w)
    \/ \E w \in Workers : HandlePermanent(w)
    \/ \E w \in Workers : Requeue(w)
    \/ \E w \in Workers : DeleteOriginal(w)
    \/ \E w \in Workers : Exhausted(w)
    \/ \E w \in Workers : Release(w)
    \/ RemoveVisit
    \/ Tick

SpecWorker == InitWorker /\ [][NextWorker]_vars

\* the run loop of one worker process with its semaphore
NextRun ==
    \/ \E h \in Handlers : Poll(h)
    \/ \E h \in Handlers : Acquire(h)
    \/ \E h \in Handlers : Guard(h)
    \/ \E h \in Handlers : Prepare(h)
    \/ \E h \in Handlers : ExtendVisibility(h)
    \/ \E h \in Handlers : Finish(h)
    \/ \E h \in Handlers : HandlePermanent(h)
    \/ \E h \in Handlers : Requeue(h)
    \/ \E h \in Handlers : DeleteOriginal(h)
    \/ \E h \in Handlers : Exhausted(h)
    \/ \E h \in Handlers : Release(h)
    \/ Tick

SpecRun == InitRun /\ [][NextRun]_vars

\* the intake of a visit with an acute complaint
NextCategory ==
    \/ ExecuteAcute
    \/ Edit

SpecCategory == InitEntity /\ [][NextCategory]_vars

\* the answers of a stable visit are submitted, the visit completed or cancelled
NextSubmit ==
    \/ SubmitIntake
    \/ CompleteStableIntake
    \/ CancelVisit

SpecSubmit == Init /\ [][NextSubmit]_vars

\* concurrent start-intake requests
NextStartIntake ==
    \/ \E r \in StartRequests : FindIdempotencyRecord(r)
    \/ \E r \in StartRequests : FindPatient(r)
    \/ \E r \in StartRequests : SavePatient(r)
    \/ \E r \in StartRequests : AddVisitToPatient(r)
    \/ \E r \in StartRequests : SaveIdempotencyRecord(r)

SpecStartIntake == InitStartIntake /\ [][NextStartIntake]_vars

(***************************************************************************)
(* Properties of the intake session.                                       *)
(***************************************************************************)
\* a step that records (or tries to record) an answer
RecordsAnswer == last'.op \in {"execute", "add_question_answer"}

HasPending(s) == s.pending_question # NoQuestion /\ s.pending_question # EmptyText

\* C1: when execute records the next answer of an in-progress session that has a
\* pending question q, the entry it appends has question text exactly q,
\* whatever the question service returns at that moment
C1_PendingQuestionRecorded ==
    [][ ( /\ last'.op = "execute"
          /\ last'.error = "ok"
          /\ session.status = "in_progress"
          /\ HasPending(session) )
        => /\ Len(session'.questions_asked) = Len(session.questions_asked) + 1
           /\ session'.questions_asked[Len(session'.questions_asked)].question
                = session.pending_question
           /\ SubSeq(session'.questions_asked, 1, Len(session.questions_asked))
                = session.questions_asked ]_vars

\* an answer was recorded against a cached pending question and the next
\* question cached (3 service calls: none was spent on the current question)
C1_Witness ==
    /\ last.op = "execute" /\ last.error = "ok" /\ last.calls = 3
    /\ Len(session.questions_asked) >= 2
    /\ HasPending(session)

\* C3: after any sequence of record-answer, edit-answer and complete operations
\* the session holds at most max_questions entries and its count is at most
\* max_questions
C3_BudgetInvariant ==
    /\ Len(session.questions_asked) <= session.max_questions
    /\ session.current_question_count <= session.max_questions

\* a session filled to its budget, then completed, then edited
C3_Witness ==
    /\ Len(session.questions_asked) = session.max_questions
    /\ session.status = "completed"
    /\ last = Result("edit", "ok", 0)

\* C4 as stated: recording an answer on a session whose count equals the budget
\* fails with QuestionLimitExceededError and leaves entries, count and status
\* unchanged
C4_AsStated ==
    [][ ( /\ RecordsAnswer
          /\ session.current_question_count = session.max_questions )
        => /\ last'.error = "QuestionLimitExceededError"
           /\ session'.questions_asked = session.questions_asked
           /\ session'.current_question_count = session.current_question_count
           /\ session'.status = session.status ]_vars

\* C4: recording an answer on an in-progress session whose count equals the
\* budget fails with QuestionLimitExceededError and leaves entries, count and
\* status unchanged
C4_LimitExceeded ==
    [][ ( /\ RecordsAnswer
          /\ session.status = "in_progress"
          /\ session.current_question_count = session.max_questions )
        => /\ last'.error = "QuestionLimitExceededError"
           /\ session'.questions_asked = session.questions_asked
           /\ session'.current_question_count = session.current_question_count
           /\ session'.status = session.status ]_vars

\* an answer was refused on an in-progress session at its budget
C4_Witness ==
    /\ last.error = "QuestionLimitExceededError"
    /\ session.status = "in_progress"
    /\ session.current_question_count = session.max_questions

\* C5: every attempt to record an answer on a completed session fails with
\* IntakeAlreadyCompletedError, appends nothing, leaves count, status and the
\* stored entries unchanged, and makes no question-service call
C5_CompletedRefusesAnswers ==
    [][ ( RecordsAnswer /\ session.status = "completed" )
        => /\ last'.error = "IntakeAlreadyCompletedError"
           /\ last'.calls = 0
           /\ session' = session ]_vars

\* execute was refused on a completed session
C5_Witness ==
    /\ last = Result("execute", "IntakeAlreadyCompletedError", 0)
    /\ session.status = "completed"
    /\ Len(session.questions_asked) >= 1

\* C6: once the session is completed no operation of the use case changes the
\* content of questions_asked
C6_CompletedFreezesAnswers ==
    [][ session.status = "completed"
        => session'.questions_asked = session.questions_asked ]_vars

\* C7: current_question_count equals the number of entries, the entries are
\* numbered 1..n in insertion order, and the last entry's number is n
C7_SequenceNumbers ==
    /\ session.current_question_count = Len(session.questions_asked)
    /\ \A i \in 1..Len(session.questions_asked) :
          session.questions_asked[i].question_number = i
    /\ Len(session.questions_asked) > 0
          => session.questions_asked[Len(session.questions_asked)].question_number
               = Len(session.questions_asked)

\* three answers recorded, the last one directly on the entity
C7_Witness ==
    /\ Len(session.questions_asked) >= 3
    /\ last = Result("add_question_answer", "ok", 0)

(***************************************************************************)
(* Properties of the transcription worker.                                 *)
(***************************************************************************)
\* worker w takes the guard step on a visit its lookup found
GuardStep(w) ==
    /\ task[w].pc = "guard"
    /\ task'[w] # task[w]
    /\ task'[w].visit_bound
    /\ visit_exists

\* the queue after the guard's one call on the message w holds
QueueAfterCall(w, after) ==
    /\ task'[w].queue_call \in {"ok", "failed"}
    /\ task'[w].queue_call = "ok" => queue' = after
    /\ task'[w].queue_call = "failed" => queue' = queue

\* C2: on a transient failure with retries left the original message is deleted
\* only after the re-enqueue succeeded; if the re-enqueue failed the original
\* message stays in the queue
C2_DeleteOnlyAfterRequeue ==
    [][ \A w \in Workers :
          ( /\ task[w].pc = "delete_original"
            /\ ~task[w].requeued
            /\ InQueue(queue, task[w].message_id) )
          => InQueue(queue', task[w].message_id) ]_vars

\* C8: a job whose visit transcription is completed or failed: the worker
\* deletes the message and returns, without starting transcription, without
\* re-enqueuing and without changing the visit's transcription session
C8_GuardTerminal ==
    [][ \A w \in Workers :
          ( /\ GuardStep(w)
            /\ transcription.transcription_status \in {"completed", "failed"} )
          => /\ task'[w].pc = "returned"
             /\ task'[w].path \in {"already_completed", "already_failed"}
             /\ ~task'[w].visibility_task /\ ~task'[w].heartbeat_task
             /\ QueueAfterCall(w, delete_message(queue, task[w].message_id))
             /\ next_id' = next_id
             /\ transcription' = transcription ]_vars

\* a job of a failed visit was deleted by the guard
C8_Witness ==
    \E w \in Workers :
        /\ task[w].pc = "returned"
        /\ task[w].path = "already_failed"
        /\ task[w].queue_call = "ok"
        /\ transcription.transcription_status = "failed"
        /\ ~InQueue(queue, task[w].message_id)

\* C9: a job whose visit transcription is processing and started less than 20
\* minutes ago: the worker extends the visibility of its message and returns,
\* without starting transcription, without deleting the message and without
\* modifying the visit
C9_GuardFresh ==
    [][ \A w \in Workers :
          ( /\ GuardStep(w)
            /\ transcription.transcription_status = "processing"
            /\ transcription.started_at # NoTime
            /\ now - transcription.started_at < StaleAfter )
          => /\ task'[w].pc = "returned"
             /\ task'[w].path = "already_processing"
             /\ ~task'[w].visibility_task /\ ~task'[w].heartbeat_task
             /\ QueueAfterCall(w,
                   update_message_visibility(queue, task[w].message_id,
                       Max(MinExtension,
                           StaleAfter - (now - transcription.started_at)), now))
             /\ {m.id : m \in queue'} = {m.id : m \in queue}
             /\ next_id' = next_id
             /\ transcription' = transcription ]_vars

\* a duplicate of a job that started 600 s ago was put off by another 600 s
C9_Witness ==
    \E w \in Workers :
        /\ task[w].pc = "returned"
        /\ task[w].path = "already_processing"
        /\ task[w].queue_call = "ok"
        /\ transcription.transcription_status = "processing"
        /\ now - transcription.started_at = TickStep
        /\ \E m \in queue : m.id = task[w].message_id
                            /\ m.visible_at = now + (StaleAfter - TickStep)

\* C10: a job whose visit transcription is processing and started 20 minutes
\* ago or more: the worker resets the status to pending, clears started_at and
\* error_message, saves the visit and goes on to process the job itself
C10_GuardStale ==
    [][ \A w \in Workers :
          ( /\ GuardStep(w)
            /\ transcription.transcription_status = "processing"
            /\ transcription.started_at # NoTime
            /\ now - transcription.started_at >= StaleAfter )
          => /\ task'[w].pc = "prepare"
             /\ transcription'.transcription_status = "pending"
             /\ transcription'.started_at = NoTime
             /\ transcription'.error_message = "none"
             /\ queue' = queue ]_vars

\* a worker went past the guard on a visit it reset, while the execution that
\* had started the transcription is still running
C10_Witness ==
    \E w \in Workers, v \in Workers :
        /\ task[w].pc = "prepare"
        /\ task[v].pc = "transcribing"
        /\ transcription.transcription_status = "pending"
        /\ transcription.started_at = NoTime
        /\ transcription.dequeued_at = now

\* worker w leaves the exception handler's entry with a transient error
TransientFailureStep(w) ==
    /\ task[w].pc = "failed"
    /\ task'[w] # task[w]
    /\ task[w].error # "VisitNotFoundError"

\* C11: a job that fails transiently with no retry left is deleted, is not
\* re-enqueued, and the visit's transcription is marked failed (when the visit
\* store answers); a job that fails transiently with a retry left is re-enqueued
\* with retry_count + 1 and the worker does not mark the visit failed
C11_RetryExhaustion ==
    [][ \A w \in Workers :
          /\ ( TransientFailureStep(w) /\ task[w].retry_count >= MaxRetryAttempts )
             => /\ task'[w].pc = "returned"
                /\ task'[w].path \in {"exhausted", "exhausted_unmarked"}
                /\ QueueAfterCall(w, delete_message(queue, task[w].message_id))
                /\ next_id' = next_id
                /\ task'[w].path = "exhausted"
                      => transcription'.transcription_status = "failed"
                /\ task'[w].path = "exhausted_unmarked"
                      => transcription' = transcription
          /\ ( TransientFailureStep(w) /\ task[w].retry_count < MaxRetryAttempts )
             => /\ task'[w].pc = "delete_original"
                /\ transcription' = transcription
                /\ task'[w].requeued
                      => /\ queue' = queue \cup
                               { Message(next_id, task[w].retry_count + 1,
                                         now + Min(60 * (2 ^ task[w].retry_count), 300)) }
                         /\ next_id' = next_id + 1
                /\ ~task'[w].requeued => queue' = queue /\ next_id' = next_id
          /\ ( task[w].pc = "delete_original" /\ task'[w] # task[w] )
             => transcription' = transcription ]_vars

\* a retried job failed again, was deleted, and the visit marked failed
C11_Witness ==
    \E w \in Workers :
        /\ task[w].pc = "returned"
        /\ task[w].path = "exhausted"
        /\ task[w].retry_count = MaxRetryAttempts
        /\ task[w].queue_call = "ok"
        /\ transcription.transcription_status = "failed"
        /\ queue = {}

\* C12: when the job's visit is not found, at the idempotency guard or as a
\* VisitNotFoundError during processing, the message is deleted at once and no
\* retry message is enqueued, whatever the job's retry_count
C12_PermanentErrorsNotRetried ==
    [][ \A w \in Workers :
          /\ ( /\ task[w].pc = "guard"
               /\ task'[w] # task[w]
               /\ task'[w].visit_bound
               /\ ~visit_exists )
             => /\ task'[w].pc = "returned"
                /\ task'[w].path = "visit_not_found"
                /\ QueueAfterCall(w, delete_message(queue, task[w].message_id))
                /\ next_id' = next_id
                /\ transcription' = transcription
          /\ ( /\ task[w].pc = "failed"
               /\ task'[w] # task[w]
               /\ task[w].error = "VisitNotFoundError" )
             => /\ task'[w].pc = "returned"
                /\ task'[w].path = "permanent"
                /\ QueueAfterCall(w, delete_message(queue, task[w].message_id))
                /\ next_id' = next_id
                /\ transcription' = transcription ]_vars

\* a job that still had a retry left ended with VisitNotFoundError and was
\* deleted; nothing was ever re-enqueued
C12_Witness ==
    \E w \in Workers :
        /\ task[w].pc = "returned"
        /\ task[w].path = "permanent"
        /\ task[w].retry_count < MaxRetryAttempts
        /\ task[w].queue_call = "ok"
        /\ queue = {}
        /\ next_id = 2

\* worker w's transcription use case ends
UseCaseEnds(w) == task[w].pc = "transcribing" /\ task'[w] # task[w]

\* the result has status completed, a non-blank transcript and a word count
\* that is present and not zero
PassesValidation(r) ==
    /\ r.raised = "none"
    /\ r.transcription_status = "completed"
    /\ r.transcript = "text"
    /\ r.word_count # NoCount /\ r.word_count # 0

\* C13: a job takes the success path (message deleted, job reported completed)
\* only if the result has status completed, a non-blank transcript and a word
\* count that is present and non-zero; a result violating one of these is
\* handled as a transient failure (ValueError) by the handler, the message left
\* in the queue for the retry / exhaustion branch
C13_StrictValidation ==
    [][ \A w \in Workers : UseCaseEnds(w) =>
          /\ task'[w].pc \in {"returned", "failed"}
          /\ task'[w].pc = "returned"
                => /\ task'[w].path = "completed"
                   /\ PassesValidation(task'[w].result)
                   /\ ~InQueue(queue', task[w].message_id)
          /\ ( task'[w].result.raised = "none"
               /\ ~PassesValidation(task'[w].result) )
                => /\ task'[w].pc = "failed"
                   /\ task'[w].error = "ValueError"
                   /\ queue' = queue
                   /\ next_id' = next_id
                   /\ transcription' = transcription ]_vars

\* a result with status completed and a transcript but a word count of zero
\* was refused
C13_Witness ==
    \E w \in Workers :
        /\ task[w].pc = "failed"
        /\ task[w].error = "ValueError"
        /\ task[w].result = UseCaseResult("none", "completed", "text", 0)
        /\ InQueue(queue, task[w].message_id)

ExecuteRecords == last'.op = "execute" /\ last'.error = "ok"

ClosingPositions(s) ==
    { i \in 1..Len(s.questions_asked) : s.questions_asked[i].question = ClosingQuestion }

C17_SessionCompletes ==
    /\ session.status = "in_progress"
          => \E answer \in AnswerTexts, reply1 \in ModelReplies, reply2 \in ModelReplies :
                execute(session, answer, reply1, reply2).s # session
    /\ ( last.op = "execute" /\ session.status = "in_progress" )
          => session.current_question_count < session.max_questions

\* C18: the completion percent execute returns is 100 if and only if the call
\* completed the session
C18_PercentHundredIffComplete ==
    ( last.op = "execute" /\ last.error = "ok" )
    => ( last.completion_percent = 100 <=> session.status = "completed" )

\* an execute that left the session in progress one answer short of its budget
\* reported less than 100
C18_Witness ==
    /\ last.op = "execute"
    /\ last.error = "ok"
    /\ session.status = "in_progress"
    /\ session.current_question_count = session.max_questions - 1
    /\ last.completion_percent < 100
    /\ last.completion_percent > 0

\* C19: after at least one recorded answer the completion percent execute
\* reports is at least 10, for every question budget
C19_PercentAtLeastTen ==
    ( /\ last.op = "execute"
      /\ last.error = "ok"
      /\ Len(session.questions_asked) >= 1 )
    => last.completion_percent >= 10

\* two texts are the same up to case and surrounding whitespace
SameQuestion(a, b) == a.stem = b.stem /\ a.term = b.term

\* question is, up to case and whitespace, the text of an entry of s
Repeats(s, question) ==
    \E i \in 1..Len(s.questions_asked) :
        SameQuestion(s.questions_asked[i].question, question)

\* no two entries of the session have the same question text up to case and
\* surrounding whitespace
NoRepeatedQuestion ==
    \A i \in 1..Len(session.questions_asked) :
        \A j \in 1..Len(session.questions_asked) :
            i # j => ~SameQuestion(session.questions_asked[i].question,
                                   session.questions_asked[j].question)

\* C20 as stated: no two entries repeat a question, and any attempt to record
\* an answer under a text that repeats one fails with DuplicateQuestionError
\* and leaves the session unchanged
C20_AsStated ==
    /\ NoRepeatedQuestion
    /\ \A question \in QuestionInputs, answer \in AnswerTexts :
          Repeats(session, question)
          => add_question_answer(session, question, answer)
               = Outcome("DuplicateQuestionError", session)

\* C20: no two entries repeat a question, and on a session that is in progress
\* and below its budget any attempt to record an answer under a text that
\* repeats one, on the entity or through execute with that text pending, fails
\* with DuplicateQuestionError and leaves the session unchanged
C20_NoRepeatedQuestion ==
    /\ NoRepeatedQuestion
    /\ ( /\ session.status = "in_progress"
         /\ session.current_question_count < session.max_questions )
       => /\ \A question \in QuestionInputs, answer \in AnswerTexts :
                Repeats(session, question)
                => add_question_answer(session, question, answer)
                     = Outcome("DuplicateQuestionError", session)
          /\ Repeats(session, session.pending_question)
                => \A answer \in AnswerTexts, reply1 \in ModelReplies,
                      reply2 \in ModelReplies :
                      LET r == execute(session, answer, reply1, reply2)
                      IN  r.error = "DuplicateQuestionError" /\ r.s = session

\* a repeated question was refused on a session in progress below its budget
C20_Witness ==
    /\ last.error = "DuplicateQuestionError"
    /\ session.status = "in_progress"
    /\ session.current_question_count < session.max_questions
    /\ Len(session.questions_asked) >= 2

\* C21: when the model call fails, the question generate_next_question
\* returns for a session with an answer recorded is neither empty nor punctuation only, and is not a
\* question already asked (the call does not raise: _chat_completion swallows
\* the failure)
C21_FailureFallback ==
    ( session.status = "in_progress" /\ session.current_question_count >= 1 )
    => LET question == generate_next_question(session.current_question_count,
                                              session.max_questions, FailedReply)
       IN  /\ question.stem # ""
           /\ ~Repeats(session, question)

\* C22: edit with a question number outside 1..len(questions_asked), 0 and
\* negatives included, fails with ValueError("Invalid question_number") and
\* leaves the persisted session, every stored entry included, unchanged
C22_EditInvalidIndex ==
    /\ \A question_number \in QuestionNumbers, new_answer \in NewAnswerTexts :
          ( question_number < 1 \/ question_number > Len(session.questions_asked) )
          => edit(session, question_number, new_answer)
               = Outcome("ValueError", session)
    /\ ( last.op = "edit" /\ last.error = "ok" )
          => Len(session.questions_asked) >= 1

\* an edit with a question number out of range was refused on a session that
\* holds entries
C22_Witness ==
    /\ last = Result("edit", "ValueError", 0)
    /\ Len(session.questions_asked) >= 2

\* C23: completing an already completed session is a no-op: status,
\* completed_at, questions_asked and count after the second complete_intake
\* equal those after the first
C23_CompleteIdempotent ==
    [][ ( last'.op = "complete_intake" /\ session.status = "completed" )
        => /\ session'.status = session.status
           /\ session'.completed_at = session.completed_at
           /\ session'.questions_asked = session.questions_asked
           /\ session'.current_question_count
                = session.current_question_count ]_vars

\* C24: where a pre-visit summary is generated, a model call that fails makes
\* generate_pre_visit_summary return the fallback summary built from the
\* patient data fields, not an empty summary
C24_SummaryFallback ==
    last.op = "generate_pre_visit_summary"
    => \A patient_data \in PatientData, content \in SummaryReplies :
          LET result == generate_pre_visit_summary(patient_data,
                            chat_completion(FALSE, content))
          IN  /\ result = generate_fallback_summary(patient_data)
              /\ result.summary # <<>>

\* C25: for any interleaving of start-intake requests that carry the same
\* idempotency key within the record's lifetime, at most one visit is created
\* and every request returns the same patient_id and visit_id
C25_StartIntakeIdempotent ==
    /\ Cardinality(visits) <= 1
    /\ \A r1 \in StartRequests, r2 \in StartRequests :
          ( request[r1].pc = "done" /\ request[r2].pc = "done" )
          => /\ request[r1].patient_id = request[r2].patient_id
             /\ request[r1].visit_id = request[r2].visit_id

\* the executions that are past the idempotency guard and executing the
\* transcription of the visit
ActiveProcessors == { w \in Workers : task[w].pc \in {"prepare", "transcribing"} }

\* C26: for any interleaving of workers that dequeue messages of the same
\* visit, at most one worker at a time is past the idempotency guard and
\* executing the transcription of that visit
C26_OneActiveProcessor == Cardinality(ActiveProcessors) <= 1

\* C27: every processing failure after the idempotency guard, a missing audio
\* file or blob reference included, enters the permanent / retry / exhaustion
\* handling of process_job: an execution past the guard either goes on, ends
\* its job as completed, or is in the handler with its error
C27_FailuresRouted ==
    [][ \A w \in Workers :
          ( /\ task[w].pc \in {"prepare", "transcribing"}
            /\ task'[w] # task[w]
            /\ task'[w].pc # "transcribing"
            /\ ~(task'[w].pc = "returned" /\ task'[w].path = "completed") )
          => /\ task'[w].pc = "failed"
             /\ task'[w].error # "none" ]_vars

\* C28: on every exit path of process_job that started them (success,
\* validation failure, timeout, other exception) the visibility-extension task
\* and the heartbeat task are cancelled: only an execution whose use case is
\* still running has them after any step, and every visibility extension of
\* the periodic task is issued by such an execution for its own message
C28_BackgroundTasksCancelled ==
    [][ /\ \A w \in Workers :
              task'[w].pc # "transcribing"
              => ~task'[w].visibility_task /\ ~task'[w].heartbeat_task
        /\ ( queue' # queue /\ task' = task )
           => \E w \in Workers :
                 /\ task[w].pc = "transcribing"
                 /\ queue' = update_message_visibility(queue, task[w].message_id,
                                                       visibility_timeout, now) ]_vars

\* a job timed out: it is in the handler, both tasks cancelled, its message
\* still in the queue
C28_Witness ==
    \E w \in Workers :
        /\ task[w].pc = "failed"
        /\ task[w].error = "TimeoutError"
        /\ ~task[w].visibility_task /\ ~task[w].heartbeat_task
        /\ InQueue(queue, task[w].message_id)

\* the delays of the retries of a job that failed with retry count 0, 1, 2, ...
BackoffDelays == <<60, 120, 240, 300, 300, 300>>

\* C29: a retry message for a job that failed with retry count r carries
\* retry_count r + 1 and is enqueued invisible for min(60 * 2^r, 300) seconds
\* (60, 120, 240, 300, 300, ...); a message is dequeued only once it is
\* visible; a new job (delay 0) is visible immediately
C29_Backoff ==
    [][ /\ \A r \in 0..(Len(BackoffDelays) - 1) :
              delay_seconds(r) = BackoffDelays[r + 1]
        /\ \A w \in Workers :
              /\ ( /\ task[w].pc = "failed"
                   /\ task'[w].pc = "delete_original"
                   /\ task'[w].requeued )
                 => queue' = queue \cup
                       { Message(next_id, task[w].retry_count + 1,
                                 now + BackoffDelays[task[w].retry_count + 1]) }
              /\ ( task[w].pc = "idle" /\ task'[w].pc = "guard" )
                 => \E m \in queue : /\ m.id = task'[w].message_id
                                     /\ m.retry_count = task'[w].retry_count
                                     /\ m.visible_at <= now
        /\ enqueue_transcription_job({}, 1, 0, 0, now) = { Message(1, 0, now) } ]_vars

\* the retry message of a job that failed with retry count 0 is in the queue,
\* invisible for another 60 seconds
C29_Witness ==
    \E m \in queue :
        /\ m.retry_count = 1
        /\ m.visible_at = now + 60
        /\ \E w \in Workers : task[w].pc = "delete_original" /\ task[w].requeued

\* the process_job executions of the worker process that are running
RunningJobs ==
    { h \in DOMAIN task :
        task[h].pc \in {"guard", "prepare", "transcribing", "failed", "delete_original"} }

\* C30: in one worker process the number of process_job executions running at
\* the same time never exceeds max_concurrent_jobs, which is at least 1
\* whatever is configured, for any arrival pattern of queue messages
C30_BoundedConcurrency ==
    /\ Cardinality(RunningJobs) <= max_concurrent_jobs
    /\ \A configured \in (0 - 1)..3 :
          /\ concurrency(configured) >= 1
          /\ configured >= 1 => concurrency(configured) = configured

\* as many executions are running as the semaphore has permits, and a third
\* job that was dequeued waits
C30_Witness ==
    /\ Cardinality(RunningJobs) = max_concurrent_jobs
    /\ \E h \in DOMAIN task : task[h].pc = "waiting"

\* the handle_job tasks whose message was dequeued and whose job is not finished
UnfinishedJobs ==
    { h \in DOMAIN task : task[h].pc = "waiting" } \cup RunningJobs

\* C31: the worker never holds more dequeued-but-unfinished messages than
\* max_concurrent_jobs, and the visibility timeout of a message does not expire
\* while its job waits for the semaphore
C31_NoDequeueWithoutSlot ==
    /\ Cardinality(UnfinishedJobs) <= max_concurrent_jobs
    /\ \A h \in DOMAIN task :
          task[h].pc = "waiting"
          => \A m \in queue : m.id = task[h].message_id => m.visible_at > now

\* C32: if the visit lookup of the idempotency guard raises, process_job goes
\* on into the processing of the job: the job is not abandoned with its message
\* neither deleted, nor re-enqueued, nor visibility-extended
C32_LookupFailureContinues ==
    [][ \A w \in Workers :
          ( /\ task[w].pc = "guard"
            /\ task'[w] # task[w]
            /\ ~task'[w].visit_bound )
          => task'[w].pc = "prepare" ]_vars

\* C33: a worker never goes past the idempotency guard to start the
\* transcription of a visit whose transcription status is processing unless
\* that processing state is stale (started at least 20 minutes ago), also when
\* the processing state carries no started_at
C33_NoStartWhileProcessing ==
    [][ \A w \in Workers :
          ( /\ task[w].pc = "guard"
            /\ task'[w].pc = "prepare"
            /\ transcription.transcription_status = "processing" )
          => /\ transcription.started_at # NoTime
             /\ now - transcription.started_at >= StaleAfter ]_vars

\* the question text of the last entry of s
LastQuestion(s) == s.questions_asked[Len(s.questions_asked)].question

\* generate_next_question returns the closing text whatever the model replies
\* whenever current_count + 1 >= max_count
ClosingForced(max_count) ==
    \A current_count \in 0..max_count, reply \in ModelReplies :
        current_count + 1 >= max_count
        => generate_next_question(current_count, max_count, reply) = ClosingQuestion

\* C34 as stated: in every session that reaches completed by exhausting its
\* budget the last entry of questions_asked is the fixed closing question
C34_AsStated ==
    /\ ( session.status = "completed"
         /\ Len(session.questions_asked) = session.max_questions )
       => LastQuestion(session) = ClosingQuestion
    /\ ClosingForced(session.max_questions)

\* C34: in every session with a budget of at least two questions that reaches
\* completed by exhausting its budget, the last entry of questions_asked is the
\* fixed closing question: generate_next_question returns the closing text,
\* whatever the model replies, whenever current_count + 1 >= max_count
C34_ClosingAtBudget ==
    /\ ( session.status = "completed"
         /\ Len(session.questions_asked) = session.max_questions
         /\ session.max_questions >= 2 )
       => LastQuestion(session) = ClosingQuestion
    /\ ClosingForced(session.max_questions)

\* a session with a budget of three or more completed by execute: its last
\* entry is the closing question, the one before it a question of the model
C34_Witness ==
    /\ session.status = "completed"
    /\ last.op = "execute"
    /\ session.max_questions >= 3
    /\ Len(session.questions_asked) = session.max_questions
    /\ LastQuestion(session) = ClosingQuestion
    /\ session.questions_asked[session.max_questions - 1].question
          \notin {ClosingQuestion, FirstQuestion}

\* C35: the question text recorded with the first answer of a visit equals the
\* first question the registration response returned to the client
C35_FirstQuestionAsServed ==
    (last.op = "execute" /\ Len(session.questions_asked) >= 1)
        => session.questions_asked[1].question = RegisterPatientResponse.first_question

\* C36: in a session whose chief complaint matches only acute keywords, no
\* family-history or chronic-monitoring question is returned by
\* generate_next_question (and cached as the pending question) nor recorded in
\* questions_asked, whatever the language model replies
C36_NoForbiddenCategory ==
    IsAcuteOnly(session.symptom)
        => /\ Category(session.pending_question) \notin ForbiddenCategories
           /\ \A i \in 1..Len(session.questions_asked) :
                  Category(session.questions_asked[i].question) \notin ForbiddenCategories

NewPatientReports == { r \in StartRequests : request[r].action = "new_patient_created" }

\* C38: find_or_create_patient is atomic: however concurrent calls with the same
\* normalized name and phone interleave, at most one patient record exists for
\* them and at most one call reports is_new_patient = true
C38_FindOrCreateAtomic ==
    /\ Cardinality(patients) <= 1
    /\ Cardinality(NewPatientReports) <= 1

\* C39: after every submission of answers to an open or in-progress stable
\* visit, intake_snapshot.total_questions equals the number of answers stored
\* in the snapshot; a submission to a completed or cancelled visit raises and
\* leaves the visit as it was
C39_TotalQuestionsCountsAnswers ==
    [][ last'.op = "submit_intake"
        => IF stable_visit.status \in {"open", "in_progress"}
           THEN /\ last'.error = "ok"
                /\ stable_visit'.intake_snapshot.total_questions
                      = Cardinality(DOMAIN stable_visit'.intake_snapshot.answers)
           ELSE /\ last'.error = "ValueError"
                /\ stable_visit' = stable_visit ]_vars

====
